---- MODULE Spec2Model ----
(***************************************************************************)
(* Model of the Google Docs sync core of the global note taker:           *)
(*   GoogleAuthService  (electron/googleAuth.ts)                           *)
(*   GoogleDocsService  (electron/googleDocs.ts)                           *)
(*   GoogleSyncManager  (electron/googleSync.ts)                           *)
(*   the ipcMain handlers of electron/main.ts that reach them.             *)
(* The main process is single threaded: every action below is one run of  *)
(* JavaScript between two awaits (one event-loop turn).                    *)
(***************************************************************************)
EXTENDS Integers, Sequences, FiniteSets, TLC

VARIABLES
  configured,     \* getOAuthConfig(): client id and client secret both set
  credentials,    \* GoogleAuthService.oauth2Client.credentials
  storeTokens,    \* electron-store key 'googleTokens'  (<<>> = key absent)
  storeSettings,  \* electron-store key 'syncSettings'  (<<>> = key absent)
  docsService,    \* GoogleSyncManager.docsService # null
  doc,            \* text of the remote target document "d1"
  now,            \* Date.now()
  calls,          \* in-flight asynchronous operations, one record per slot
  authFlow,       \* the startAuth promise, its window and its two handlers
  hist,           \* log of completed direct GoogleDocsService calls
  noteStore,      \* electron-store keys 'lastNote' and 'lastSaved'
  renderer,       \* App: the editor content and the pending auto-save timers
  saveRequests,   \* 'save-note' ipc requests sent and not yet handled, in order
  online,         \* the network reaches the Google services
  updater         \* AutoUpdaterManager: checks, dialogs and calls of autoUpdater

vars == <<configured, credentials, storeTokens, storeSettings, docsService,
          doc, now, calls, authFlow, hist, noteStore, renderer, saveRequests,
          online, updater>>

\* the local note, the renderer and the network
noteVars == <<noteStore, renderer, saveRequests, online>>

----------------------------------------------------------------------------
(* Bounds *)

MaxCalls == 1
MaxTime == 2
MaxTok == 1
MaxDocLen == 8
MaxLen == 1
MaxOps == 2
MaxQueue == 1

Calls == 1..MaxCalls

\* AutoUpdaterManager before its first check: no check under way, no dialog
\* open, nothing downloaded; the counters count events and calls so far
IdleUpdater ==
  [development |-> FALSE, checking |-> 0, checks |-> 0, available |-> 0,
   updateDialogs |-> 0, downloading |-> 0, downloaded |-> 0,
   restartDialogs |-> 0, downloadUpdate |-> 0, quitAndInstall |-> 0,
   response |-> "none"]

----------------------------------------------------------------------------
(* Remote document: a text that always ends with the implicit newline.     *)
(* Character i of the text sits at document index i (index 0 is reserved). *)

NL == "\n"
SP == " "

TargetDoc == "d1"

BannerOf(t) == <<"---", ToString(t), "---">>

Alphabet == {"a", SP, NL}

SeqsUpTo(S, n) == UNION {[1..k -> S] : k \in 0..n}

Contents == SeqsUpTo(Alphabet, MaxLen)

InitDocs == {<<NL>>, <<"x", NL>>, <<"x", NL, "y", NL>>}

\* String.prototype.trim() leaves something
TrimNonEmpty(content) == \E i \in 1..Len(content) : content[i] \notin {SP, NL}

RECURSIVE ParagraphsFrom(_, _, _)
ParagraphsFrom(text, start, i) ==
  IF i > Len(text) THEN <<>>
  ELSE IF text[i] = NL
       THEN <<[startIndex |-> start, endIndex |-> i + 1]>>
              \o ParagraphsFrom(text, i + 1, i + 1)
       ELSE ParagraphsFrom(text, start, i + 1)

\* documents.get: doc.data.body.content, a section break then the paragraphs
BodyContent(text) ==
  <<[startIndex |-> 0, endIndex |-> 1]>> \o ParagraphsFrom(text, 1, 1)

InsertReq(i, t) ==
  [type |-> "insertText", index |-> i, startIndex |-> 0, endIndex |-> 0, text |-> t]
DeleteReq(s, e) ==
  [type |-> "deleteContentRange", index |-> 0, startIndex |-> s, endIndex |-> e,
   text |-> <<>>]

\* The service rejects a request outside the body or touching the final newline
ValidRequest(text, r) ==
  IF r.type = "insertText"
  THEN r.index >= 1 /\ r.index <= Len(text) /\ Len(r.text) > 0
  ELSE r.startIndex >= 1 /\ r.startIndex < r.endIndex /\ r.endIndex <= Len(text)

ApplyRequest(text, r) ==
  IF r.type = "insertText"
  THEN SubSeq(text, 1, r.index - 1) \o r.text \o SubSeq(text, r.index, Len(text))
  ELSE SubSeq(text, 1, r.startIndex - 1) \o SubSeq(text, r.endIndex, Len(text))

\* documents.batchUpdate: the requests in order, all or nothing (<<>> = error)
RECURSIVE BatchUpdate(_, _)
BatchUpdate(text, reqs) ==
  IF reqs = <<>> THEN text
  ELSE IF ~ValidRequest(text, Head(reqs)) THEN <<>>
       ELSE BatchUpdate(ApplyRequest(text, Head(reqs)), Tail(reqs))

----------------------------------------------------------------------------
(* GoogleDocsService: the edit each method computes from a fetched body *)

UpdateEndIndex(bodyContent) ==
  IF Len(bodyContent) > 1 THEN bodyContent[Len(bodyContent)].endIndex - 1 ELSE 1

UpdateRequests(bodyContent, content) ==
  (IF UpdateEndIndex(bodyContent) > 1
   THEN <<DeleteReq(1, UpdateEndIndex(bodyContent))>> ELSE <<>>)
  \o (IF TrimNonEmpty(content) THEN <<InsertReq(1, content)>> ELSE <<>>)

\* appending at the start of the body, as updateDocumentContent inserts
AppendAtStart(bodyContent) == 1

\* the end offset of the last structural element, with nothing subtracted
AppendEndIndexNoSubtraction(bodyContent) ==
  IF Len(bodyContent) > 0 THEN bodyContent[Len(bodyContent)].endIndex ELSE 1

AppendEndIndex(bodyContent) ==
  IF Len(bodyContent) > 0 THEN bodyContent[Len(bodyContent)].endIndex - 1 ELSE 1

\* an append without the banner line, as addSectionToDocument writes
AppendTextNoBanner(t, content) == <<NL, NL>> \o content

AppendText(t, content) == <<NL, NL>> \o BannerOf(t) \o <<NL>> \o content

\* an append that replaces the body it fetched, as updateDocument does
AppendRequestsReplacing(bodyContent, t, content) ==
  UpdateRequests(bodyContent, AppendText(t, content))

AppendRequests(bodyContent, t, content) ==
  <<InsertReq(AppendEndIndex(bodyContent), AppendText(t, content))>>

SectionEndIndex(bodyContent) ==
  IF Len(bodyContent) > 0
  THEN (IF bodyContent[Len(bodyContent)].endIndex # 0
        THEN bodyContent[Len(bodyContent)].endIndex ELSE 1)
  ELSE 1

SectionText(content) == <<NL, NL>> \o content

\* a section inserted at endIndex itself, past the final newline
SectionRequestsAtEndIndex(bodyContent, content) ==
  <<InsertReq(SectionEndIndex(bodyContent), SectionText(content))>>

\* a section inserted one position before the index of an append
SectionRequestsBeforeAppend(bodyContent, content) ==
  <<InsertReq(AppendEndIndex(bodyContent) - 1, SectionText(content))>>

SectionRequests(bodyContent, content) ==
  <<InsertReq(SectionEndIndex(bodyContent) - 1, SectionText(content))>>

----------------------------------------------------------------------------
(* GoogleAuthService *)

EmptyCredentials == [access_token |-> 0, refresh_token |-> FALSE, expiry_date |-> 0]

\* a validity test that takes a missing expiry_date for an expired token
IsTokenValidNeedsExpiry(cred, t) == cred.expiry_date # 0 /\ t < cred.expiry_date

IsTokenValid(cred, t) == IF cred.expiry_date = 0 THEN TRUE ELSE t < cred.expiry_date

AuthIsAuthenticated(cred, t) == cred.access_token # 0 /\ IsTokenValid(cred, t)

\* oauth2Client.refreshAccessToken() contacts the token endpoint only when the
\* credentials carry a refresh token; without one it rejects at once.
RefreshContactsServer(cred) == cred.refresh_token

\* tokens the authorization server can answer with at time t
IssuedTokens(t) ==
  {[access_token |-> a, refresh_token |-> r, expiry_date |-> e] :
     a \in 1..MaxTok, r \in BOOLEAN, e \in {0, t + 1}}

----------------------------------------------------------------------------
(* GoogleSyncManager: synchronous parts *)

DefaultSettings == [isEnabled |-> FALSE]

GetSyncSettings(st) == IF st = <<>> THEN DefaultSettings ELSE st[1]

\* { ...current, ...settings }
Merge(current, settings) ==
  [k \in DOMAIN current \cup DOMAIN settings |->
     IF k \in DOMAIN settings THEN settings[k] ELSE current[k]]

SetSyncSettingsValue(st, settings) == <<Merge(GetSyncSettings(st), settings)>>

HasTarget(s) == "targetDocumentId" \in DOMAIN s /\ s["targetDocumentId"] # ""

IsEnabled(s) == "isEnabled" \in DOMAIN s /\ s["isEnabled"]

\* settings.targetDocumentId as passed on to the docs service ("" = undefined)
TargetOf(s) == IF "targetDocumentId" \in DOMAIN s THEN s["targetDocumentId"] ELSE ""

IsAuthenticated == configured /\ AuthIsAuthenticated(credentials, now)

\* what the renderer (or any ipc client) may pass to google-sync-settings-set
Partials ==
  {[isEnabled |-> b] : b \in BOOLEAN}
  \cup {[isEnabled |-> TRUE, targetDocumentId |-> d] : d \in {"d1"}}
  \cup {[targetDocumentId |-> ""]}

----------------------------------------------------------------------------
(* Asynchronous operations in flight *)

\* what the promise of an operation settles to; error is the error string of
\* a {success:false, error} object ("" when the result carries none)
NoResult == [kind |-> "none", success |-> FALSE, error |-> ""]
ObjectResult(ok, error) == [kind |-> "object", success |-> ok, error |-> error]
BooleanResult(ok) == [kind |-> "boolean", success |-> ok, error |-> ""]
ListResult(ok) == [kind |-> "list", success |-> ok, error |-> ""]
VoidResult == [kind |-> "void", success |-> TRUE, error |-> ""]
Rejected == [kind |-> "rejected", success |-> FALSE, error |-> ""]

IdleCall ==
  [op |-> "none", pc |-> "idle", content |-> <<>>, docId |-> "", reqs |-> <<>>,
   t0 |-> 0, ts |-> 0, result |-> NoResult]

DirectOps == {"updateDocument", "appendToDocument", "addSectionToDocument"}

FailureOf(op, error) ==
  IF op \in {"syncNote", "validateDocument"} THEN ObjectResult(FALSE, error)
  ELSE IF op = "getRecentDocuments" THEN ListResult(FALSE)
  ELSE BooleanResult(FALSE)

SuccessOf(op) ==
  IF op \in {"syncNote", "validateDocument"} THEN ObjectResult(TRUE, "")
  ELSE IF op = "getRecentDocuments" THEN ListResult(TRUE)
  ELSE BooleanResult(TRUE)

\* a try block that ends before the second service method is looked up
TrySitesCallOnly(op) == {"call"}

\* the places of an operation that can throw and lie inside its try block:
\* "call" = an awaited service call rejects, "deref" = this.docsService is null
\* when the next service method is looked up
TrySites(op) == {"call", "deref"}

\* error.message of what was thrown at a site
MessageAt(site) == IF site = "deref" THEN "TypeError" ELSE "Failed"

Thrown(op, site) ==
  IF site \in TrySites(op) THEN FailureOf(op, MessageAt(site)) ELSE Rejected

Done(c, r) == [calls EXCEPT ![c].pc = "done", ![c].result = r]

----------------------------------------------------------------------------
(* GoogleDocsService methods, shared by the coordinator and by direct calls *)

MethodOf(op) ==
  IF op \in {"syncNote", "appendToDocument"} THEN "append"
  ELSE IF op \in {"saveAsSection", "addSectionToDocument"} THEN "section"
  ELSE "update"

RequestsOf(op, bodyContent, t, content) ==
  IF MethodOf(op) = "append" THEN AppendRequests(bodyContent, t, content)
  ELSE IF MethodOf(op) = "section" THEN SectionRequests(bodyContent, content)
  ELSE UpdateRequests(bodyContent, content)

\* a direct call that resolved: its arguments, the time its text was built
\* and the document before and after its batch
HistEntry(c) ==
  [op |-> calls[c].op, content |-> calls[c].content,
   ts |-> IF calls[c].pc = "get" THEN now ELSE calls[c].ts,
   before |-> doc, after |-> doc']

\* syncNote recording lastSync right after the append, before getDocumentInfo
MethodReturnedEarlyLastSync(c) ==
  LET op == calls[c].op IN
  IF op \in DirectOps
  THEN /\ calls' = Done(c, VoidResult)
       /\ hist' = Append(hist, HistEntry(c))
       /\ UNCHANGED storeSettings
  ELSE IF op = "syncNote"
  THEN /\ calls' = IF docsService
                   THEN [calls EXCEPT ![c].pc = "info"]
                   ELSE Done(c, Thrown(op, "deref"))
       /\ storeSettings' = SetSyncSettingsValue(storeSettings, [lastSync |-> now])
       /\ UNCHANGED hist
  ELSE /\ storeSettings' = SetSyncSettingsValue(storeSettings, [lastSync |-> now])
       /\ calls' = Done(c, SuccessOf(op))
       /\ UNCHANGED hist

\* the service method of call c resolved: the caller's next statements run
MethodReturned(c) ==
  LET op == calls[c].op IN
  IF op \in DirectOps
  THEN /\ calls' = Done(c, VoidResult)
       /\ hist' = Append(hist, HistEntry(c))
       /\ UNCHANGED storeSettings
  ELSE IF op = "syncNote"
  THEN /\ calls' = IF docsService
                   THEN [calls EXCEPT ![c].pc = "info"]
                   ELSE Done(c, Thrown(op, "deref"))
       /\ UNCHANGED <<storeSettings, hist>>
  ELSE /\ storeSettings' = SetSyncSettingsValue(storeSettings, [lastSync |-> now])
       /\ calls' = Done(c, SuccessOf(op))
       /\ UNCHANGED hist

\* the service method of call c threw ('Failed to ...')
MethodThrew(c) ==
  LET op == calls[c].op IN
  IF op \in DirectOps
  THEN /\ calls' = Done(c, Rejected)
       /\ UNCHANGED <<storeSettings, hist>>
  ELSE /\ calls' = Done(c, Thrown(op, "call"))
       /\ UNCHANGED <<storeSettings, hist>>

\* a request is answered or fails; without network it can only fail
Answers == IF online THEN BOOLEAN ELSE {FALSE}

\* documents.get answered with doc.data.body.content = bodyContent (or
\* failed); the method builds and sends its batch
DocsGetAnswer(c, bodyContent) ==
  /\ calls[c].pc = "get"
  /\ \E ok \in Answers :
       LET reqs == RequestsOf(calls[c].op, bodyContent, now, calls[c].content) IN
       /\ doc' = doc
       /\ IF ok /\ calls[c].docId = TargetDoc
          THEN IF reqs = <<>>
               THEN MethodReturned(c)
               ELSE /\ calls' = [calls EXCEPT ![c].pc = "batch", ![c].reqs = reqs,
                                              ![c].ts = now, ![c].t0 = 0]
                    /\ UNCHANGED <<storeSettings, hist>>
          ELSE MethodThrew(c)
  /\ UNCHANGED <<updater, noteVars, configured, credentials, storeTokens, docsService, now, authFlow>>

\* documents.get answered with the body of the document as the service keeps it
DocsGetResponse(c) == DocsGetAnswer(c, BodyContent(doc))

\* documents.batchUpdate answered (or failed)
DocsBatchResponse(c) ==
  /\ calls[c].pc = "batch"
  /\ \E ok \in Answers :
       IF ok /\ BatchUpdate(doc, calls[c].reqs) # <<>>
       THEN /\ doc' = BatchUpdate(doc, calls[c].reqs)
            /\ MethodReturned(c)
       ELSE /\ doc' = doc
            /\ MethodThrew(c)
  /\ UNCHANGED <<updater, noteVars, configured, credentials, storeTokens, docsService, now, authFlow>>

\* getDocumentInfo: documents.get and files.get both answered (or one failed)
InfoResponse(c) ==
  /\ calls[c].pc = "info"
  /\ \E ok \in Answers :
       IF ok /\ calls[c].docId = TargetDoc
       THEN /\ calls' = Done(c, SuccessOf(calls[c].op))
            /\ storeSettings' =
                 IF calls[c].op = "syncNote"
                 THEN SetSyncSettingsValue(storeSettings, [lastSync |-> now])
                 ELSE storeSettings
       ELSE /\ calls' = Done(c, Thrown(calls[c].op, "call"))
            /\ UNCHANGED storeSettings
  /\ UNCHANGED <<updater, noteVars, configured, credentials, storeTokens, docsService, doc, now,
                 authFlow, hist>>

\* drive.files.list answered (or failed)
ListResponse(c) ==
  /\ calls[c].pc = "list"
  /\ \E ok \in Answers :
       calls' = Done(c, IF ok THEN SuccessOf(calls[c].op)
                              ELSE Thrown(calls[c].op, "call"))
  /\ UNCHANGED <<updater, noteVars, configured, credentials, storeTokens, storeSettings, docsService,
                 doc, now, authFlow, hist>>

----------------------------------------------------------------------------
(* GoogleSyncManager: asynchronous operations *)

Settings == GetSyncSettings(storeSettings)

\* a new operation takes the first free slot
Free(c) == calls[c].pc = "idle" /\ \A d \in Calls : d < c => calls[d].pc # "idle"

\* t0 is the time of a syncNote call, kept until its text is built at time ts
Begin(c, op, pc, content, docId, r) ==
  [calls EXCEPT ![c] = [IdleCall EXCEPT !.op = op, !.pc = pc, !.content = content,
                                        !.docId = docId, !.result = r,
                                        !.t0 = IF op = "syncNote" THEN now
                                               ELSE 0]]

\* the early returns of syncNote and saveAsSection, in the order of the code
EntryError ==
  IF ~configured THEN "Not configured"
  ELSE IF ~docsService \/ ~IsAuthenticated THEN "Not authenticated"
  ELSE IF ~IsEnabled(Settings) \/ ~HasTarget(Settings) THEN "Sync is disabled"
  ELSE ""

\* syncNote without its settings test
SyncNoteReadyNoSettingsTest ==
  /\ configured
  /\ docsService /\ IsAuthenticated

SyncNoteReady ==
  /\ configured
  /\ docsService /\ IsAuthenticated
  /\ IsEnabled(Settings) /\ HasTarget(Settings)

SyncNote(c, content) ==
  /\ Free(c)
  /\ Len(doc) + Len(AppendText(now, content)) <= MaxDocLen
  /\ calls' = IF SyncNoteReady
              THEN Begin(c, "syncNote", "get", content,
                         TargetOf(Settings), NoResult)
              ELSE Begin(c, "syncNote", "done", content, "",
                         FailureOf("syncNote", EntryError))
  /\ UNCHANGED <<updater, noteVars, configured, credentials, storeTokens, storeSettings, docsService,
                 doc, now, authFlow, hist>>

\* saveAsSection without the isEnabled half of its settings test
SaveAsSectionReadyNoEnabledTest ==
  /\ configured
  /\ docsService /\ IsAuthenticated
  /\ HasTarget(Settings)

SaveAsSectionReady ==
  /\ configured
  /\ docsService /\ IsAuthenticated
  /\ IsEnabled(Settings) /\ HasTarget(Settings)

SaveAsSection(c, content) ==
  /\ Free(c)
  /\ Len(doc) + Len(SectionText(content)) <= MaxDocLen
  /\ calls' = IF SaveAsSectionReady
              THEN Begin(c, "saveAsSection", "get", content,
                         TargetOf(Settings), NoResult)
              ELSE Begin(c, "saveAsSection", "done", content, "",
                         FailureOf("saveAsSection", EntryError))
  /\ UNCHANGED <<updater, noteVars, configured, credentials, storeTokens, storeSettings, docsService,
                 doc, now, authFlow, hist>>

ValidateDocumentReady == configured /\ docsService /\ IsAuthenticated

ValidateDocument(c, documentId) ==
  /\ Free(c)
  /\ calls' = IF ValidateDocumentReady
              THEN Begin(c, "validateDocument", "info", <<>>, documentId, NoResult)
              ELSE Begin(c, "validateDocument", "done", <<>>, documentId,
                         FailureOf("validateDocument",
                                   IF ~configured THEN "Not configured"
                                   ELSE "Not authenticated"))
  /\ UNCHANGED <<updater, noteVars, configured, credentials, storeTokens, storeSettings, docsService,
                 doc, now, authFlow, hist>>

GetRecentDocumentsReady == docsService /\ IsAuthenticated

GetRecentDocuments(c) ==
  /\ Free(c)
  /\ calls' = IF GetRecentDocumentsReady
              THEN Begin(c, "getRecentDocuments", "list", <<>>, "", NoResult)
              ELSE Begin(c, "getRecentDocuments", "done", <<>>, "",
                         FailureOf("getRecentDocuments", ""))
  /\ UNCHANGED <<updater, noteVars, configured, credentials, storeTokens, storeSettings, docsService,
                 doc, now, authFlow, hist>>

\* refreshTokenIfNeeded without its isAuthenticated() test
RefreshAlways(cred, t) == TRUE

\* refreshTokenIfNeeded decides to call authService.refreshToken()
RefreshNeeded(cred, t) == ~AuthIsAuthenticated(cred, t)

RefreshTokenIfNeeded(c) ==
  /\ Free(c)
  /\ calls' = IF RefreshNeeded(credentials, now)
              THEN IF RefreshContactsServer(credentials)
                   THEN Begin(c, "refreshTokenIfNeeded", "refresh", <<>>, "", NoResult)
                   ELSE Begin(c, "refreshTokenIfNeeded", "done", <<>>, "",
                              Thrown("refreshTokenIfNeeded", "call"))
              ELSE Begin(c, "refreshTokenIfNeeded", "done", <<>>, "",
                         SuccessOf("refreshTokenIfNeeded"))
  /\ UNCHANGED <<updater, noteVars, configured, credentials, storeTokens, storeSettings, docsService,
                 doc, now, authFlow, hist>>

\* the token endpoint answered the refresh (or failed)
RefreshResponse(c) ==
  /\ calls[c].pc = "refresh"
  /\ \/ \E tok \in IssuedTokens(now) :
                  /\ tok.refresh_token
          /\ credentials' = tok
          /\ storeTokens' = <<tok>>
          /\ calls' = Done(c, SuccessOf("refreshTokenIfNeeded"))
     \/ /\ calls' = Done(c, Thrown("refreshTokenIfNeeded", "call"))
        /\ UNCHANGED <<credentials, storeTokens>>
  /\ UNCHANGED <<updater, noteVars, configured, storeSettings, docsService, doc, now, authFlow, hist>>

\* the caller has taken the result
Return(c) ==
  /\ calls[c].pc = "done"
  /\ calls' = [calls EXCEPT ![c] = IdleCall]
  /\ UNCHANGED <<updater, noteVars, configured, credentials, storeTokens, storeSettings, docsService,
                 doc, now, authFlow, hist>>

\* ipcMain 'google-sync-settings-set'
SetSyncSettings(settings) ==
  /\ storeSettings' = SetSyncSettingsValue(storeSettings, settings)
  /\ UNCHANGED <<updater, noteVars, configured, credentials, storeTokens, docsService, doc, now,
                 calls, authFlow, hist>>

\* disconnect that forgets store.delete('syncSettings')
DisconnectKeepsSettings ==
  /\ credentials' = EmptyCredentials
  /\ storeTokens' = <<>>
  /\ docsService' = FALSE
  /\ UNCHANGED <<updater, noteVars, configured, storeSettings, doc, now, calls, authFlow, hist>>

Disconnect ==
  /\ credentials' = EmptyCredentials
  /\ storeTokens' = <<>>
  /\ storeSettings' = <<>>
  /\ docsService' = FALSE
  /\ UNCHANGED <<updater, noteVars, configured, doc, now, calls, authFlow, hist>>

Tick ==
  /\ now < MaxTime
  /\ now' = now + 1
  /\ UNCHANGED <<updater, noteVars, configured, credentials, storeTokens, storeSettings, docsService,
                 doc, calls, authFlow, hist>>

----------------------------------------------------------------------------
(* GoogleSyncManager.startAuth: the consent window, the promise and the     *)
(* will-navigate / did-navigate / closed handlers                           *)

NoFlow ==
  [win |-> "none", result |-> "none", wn |-> "idle", dn |-> "idle", exchanged |-> 0]

\* resolve(v) settles the promise only the first time
Resolve(flow, v) == IF flow.result = "pending" THEN [flow EXCEPT !.result = v] ELSE flow

\* authWindow.close() asks an open window to close
CloseWindow(flow) == IF flow.win = "open" THEN [flow EXCEPT !.win = "closing"] ELSE flow

FlowQuiet ==
  /\ authFlow.win \in {"none", "closed"}
  /\ authFlow.wn # "exchanging"
  /\ authFlow.dn # "exchanging"

\* startAuth without its isConfigured() test
StartAuthNoConfigTest ==
  /\ FlowQuiet
  /\ authFlow' = [NoFlow EXCEPT !.win = "open", !.result = "pending"]
  /\ UNCHANGED <<updater, noteVars, configured, credentials, storeTokens, storeSettings, docsService,
                 doc, now, calls, hist>>

StartAuth ==
  /\ FlowQuiet
  /\ authFlow' = IF ~configured
                 THEN [NoFlow EXCEPT !.result = "false"]
                 ELSE [NoFlow EXCEPT !.win = "open", !.result = "pending"]
  /\ UNCHANGED <<updater, noteVars, configured, credentials, storeTokens, storeSettings, docsService,
                 doc, now, calls, hist>>

\* will-navigate to the callback URL; hasCode = the URL carries ?code=
WillNavigate(hasCode) ==
  /\ authFlow.win = "open"
  /\ authFlow.wn = "idle"
  /\ authFlow' = IF hasCode
                 THEN [authFlow EXCEPT !.wn = "exchanging"]
                 ELSE Resolve(CloseWindow([authFlow EXCEPT !.wn = "done"]),
                              "false")
  /\ UNCHANGED <<updater, noteVars, configured, credentials, storeTokens, storeSettings, docsService,
                 doc, now, calls, hist>>

\* did-navigate to the callback URL with a code (without one it does nothing)
DidNavigate ==
  /\ authFlow.win = "open"
  /\ authFlow.dn = "idle"
  /\ authFlow' = [authFlow EXCEPT !.dn = "exchanging"]
  /\ UNCHANGED <<updater, noteVars, configured, credentials, storeTokens, storeSettings, docsService,
                 doc, now, calls, hist>>

\* a handler that reports success whatever the exchange did
ExchangeResponseAlwaysTrue(h) ==
  /\ authFlow[h] = "exchanging"
  /\ \/ \E tok \in IssuedTokens(now) :
          /\ authFlow.exchanged = 0
          /\ credentials' = tok
          /\ storeTokens' = <<tok>>
          /\ docsService' = TRUE
          /\ authFlow' = Resolve(CloseWindow([authFlow EXCEPT ![h] = "done",
                                                             !.exchanged = 1]),
                                 "true")
     \/ /\ authFlow' = Resolve(CloseWindow([authFlow EXCEPT ![h] = "done"]),
                               "true")
        /\ UNCHANGED <<credentials, storeTokens, docsService>>
  /\ UNCHANGED <<updater, noteVars, configured, storeSettings, doc, now, calls, hist>>

\* oauth2Client.getToken(code) answered for handler h ("wn" or "dn")
ExchangeResponse(h) ==
  /\ authFlow[h] = "exchanging"
  /\ \/ \E tok \in IssuedTokens(now) :
                  /\ authFlow.exchanged = 0
          /\ credentials' = tok
          /\ storeTokens' = <<tok>>
          /\ docsService' = TRUE
          /\ authFlow' = Resolve(CloseWindow([authFlow EXCEPT ![h] = "done",
                                                             !.exchanged = 1]),
                                 "true")
     \/ /\ authFlow' = Resolve(CloseWindow([authFlow EXCEPT ![h] = "done"]),
                               "false")
        /\ UNCHANGED <<credentials, storeTokens, docsService>>
  /\ UNCHANGED <<updater, noteVars, configured, storeSettings, doc, now, calls, hist>>

\* 'closed': the user closed the window, or authWindow.close() took effect
Closed ==
  /\ authFlow.win \in {"open", "closing"}
  /\ authFlow' = Resolve([authFlow EXCEPT !.win = "closed"], "false")
  /\ UNCHANGED <<updater, noteVars, configured, credentials, storeTokens, storeSettings, docsService,
                 doc, now, calls, hist>>

----------------------------------------------------------------------------------------------------------------------------------------
(* The sync coordinator after the application started on a store that an   *)
(* earlier run left behind (GoogleSyncManager constructor), then any ipc   *)
(* request                                                                 *)

NoteContents == {<<"a">>}

\* store.get('lastNote', '') and store.get('lastSaved', null) of an empty store
EmptyNoteStore == [lastNote |-> <<>>, lastSaved |-> 0]

\* no answer to a saveNote yet
NoReply == [success |-> FALSE, syncResult |-> NoResult]

\* App after mount: the loaded content, no timer set, no save answered yet
MountedApp == [content |-> <<>>, timers |-> <<>>, lastReply |-> NoReply]

\* tokens an earlier run persisted under 'googleTokens': the consent request
\* is made with access_type 'offline' and prompt 'consent', so they include a
\* refresh token; the expiry date is absent, passed or still ahead
PersistedTokens ==
  {[access_token |-> 1, refresh_token |-> TRUE, expiry_date |-> e] :
     e \in 0..MaxTime}

Init ==
  /\ configured \in BOOLEAN
  /\ storeTokens \in {<<>>} \cup {<<tok>> : tok \in PersistedTokens}
  /\ credentials = IF configured /\ storeTokens # <<>> THEN storeTokens[1]
                   ELSE EmptyCredentials
  /\ docsService = (configured /\ storeTokens # <<>>)
  /\ storeSettings = <<>>
  /\ doc = <<NL>>
  /\ now = 1
  /\ calls = [c \in Calls |-> IdleCall]
  /\ authFlow = NoFlow
  /\ hist = <<>>
  /\ noteStore = EmptyNoteStore
  /\ renderer = MountedApp
  /\ saveRequests = <<>>
  /\ online = TRUE
  /\ updater = IdleUpdater

Next ==
  \/ \E settings \in Partials : SetSyncSettings(settings)
  \/ Disconnect
  \/ \E c \in Calls, content \in NoteContents : SyncNote(c, content)
  \/ \E c \in Calls, content \in NoteContents : SaveAsSection(c, content)
  \/ \E c \in Calls, d \in {"d1", "bad"} : ValidateDocument(c, d)
  \/ \E c \in Calls : GetRecentDocuments(c)
  \/ \E c \in Calls : DocsGetResponse(c)
  \/ \E c \in Calls : DocsBatchResponse(c)
  \/ \E c \in Calls : InfoResponse(c)
  \/ \E c \in Calls : ListResponse(c)
  \/ \E c \in Calls : Return(c)
  \/ Tick

Spec == Init /\ [][Next]_vars

----------------------------------------------------------------------------
(* The credential lifecycle on a fresh installation: the authorization     *)
(* flow, token refresh and disconnect                                      *)

----------------------------------------------------------------------------
(* The application: the coordinator driven by the renderer of the          *)
(* repository, whose only settings write is SettingsDialog.handleSave      *)

\* handleSave without its validation.success test
HandleSaveSettingsUnvalidated(c) ==
  /\ calls[c].op = "validateDocument" /\ calls[c].pc = "done"
  /\ storeSettings' =
       SetSyncSettingsValue(storeSettings,
                            [isEnabled |-> TRUE, targetDocumentId |-> calls[c].docId])
  /\ calls' = [calls EXCEPT ![c] = IdleCall]
  /\ UNCHANGED <<updater, noteVars, configured, credentials, storeTokens, docsService, doc, now,
                 authFlow, hist>>

\* handleSave after googleValidateDocument answered success: the settings it
\* sends enable the sync and carry the id that was validated (the url and the
\* title it also sends are not modelled)
HandleSaveSettings(c) ==
  /\ calls[c].op = "validateDocument" /\ calls[c].pc = "done"
  /\ calls[c].result.success
  /\ storeSettings' =
       SetSyncSettingsValue(storeSettings,
                            [isEnabled |-> TRUE, targetDocumentId |-> calls[c].docId])
  /\ calls' = [calls EXCEPT ![c] = IdleCall]
  /\ UNCHANGED <<updater, noteVars, configured, credentials, storeTokens, docsService, doc, now,
                 authFlow, hist>>

\* handleValidateUrl and handleSave start with googleValidateDocument; Return
\* is the end of handleValidateUrl and of a handleSave whose validation failed
AppNext ==
  \/ \E c \in Calls, d \in {"d1", "bad"} : ValidateDocument(c, d)
  \/ \E c \in Calls : HandleSaveSettings(c)
  \/ Disconnect
  \/ \E c \in Calls, content \in NoteContents : SyncNote(c, content)
  \/ \E c \in Calls, content \in NoteContents : SaveAsSection(c, content)
  \/ \E c \in Calls : DocsGetResponse(c)
  \/ \E c \in Calls : DocsBatchResponse(c)
  \/ \E c \in Calls : InfoResponse(c)
  \/ \E c \in Calls : Return(c)
  \/ Tick

AppSpec == Init /\ [][AppNext]_vars

----------------------------------------------------------------------------
(* An installation without GOOGLE_CLIENT_ID or GOOGLE_CLIENT_SECRET: the   *)
(* constructor sets no credentials and builds no docs service, whatever    *)
(* the store holds                                                         *)

UnconfiguredInit == Init /\ ~configured

UnconfiguredNext ==
  \/ StartAuth
  \/ \E c \in Calls, content \in NoteContents : SyncNote(c, content)
  \/ \E c \in Calls, content \in NoteContents : SaveAsSection(c, content)
  \/ \E c \in Calls, d \in {"d1", "bad"} : ValidateDocument(c, d)
  \/ \E c \in Calls : GetRecentDocuments(c)
  \/ \E settings \in Partials : SetSyncSettings(settings)
  \/ Disconnect
  \/ \E c \in Calls : Return(c)
  \/ Tick

UnconfiguredSpec == UnconfiguredInit /\ [][UnconfiguredNext]_vars

----------------------------------------------------------------------------
(* The note: the editor of App, its debounced auto-save, the 'save-note'   *)
(* handlers of the main process and the local store                        *)

EditorContents == {<<"a">>, <<"b">>}

\* 'load-note'
LoadNoteResult(st) == [content |-> st.lastNote, lastSaved |-> st.lastSaved]

\* clearTimeout(saveTimeoutRef.current): the ref holds the timer set last,
\* which is the last of the pending ones unless it has fired
ClearTimeout(timers) ==
  IF timers = <<>> THEN <<>> ELSE SubSeq(timers, 1, Len(timers) - 1)

\* window.electronAPI.saveNote(content)
InvokeSaveNote(content) == Append(saveRequests, content)

\* an editor change that leaves the earlier timer running
HandleContentChangeNoClear(newContent) ==
  /\ newContent # renderer.content
  /\ renderer' = [renderer EXCEPT !.content = newContent,
                                  !.timers = Append(renderer.timers, newContent)]
  /\ UNCHANGED <<updater, configured, credentials, storeTokens, storeSettings, docsService,
                 doc, now, calls, authFlow, hist, noteStore, saveRequests, online>>

\* RichEditor onUpdate: the content is set and the auto-save timer restarted
HandleContentChange(newContent) ==
  /\ newContent # renderer.content
  /\ renderer' = [renderer EXCEPT
                    !.content = newContent,
                    !.timers = Append(ClearTimeout(renderer.timers), newContent)]
  /\ UNCHANGED <<updater, configured, credentials, storeTokens, storeSettings, docsService,
                 doc, now, calls, authFlow, hist, noteStore, saveRequests, online>>

\* one second after it was set, the oldest pending timer runs saveNote
TimerFires ==
  /\ renderer.timers # <<>>
  /\ Len(saveRequests) < MaxQueue
  /\ saveRequests' = InvokeSaveNote(Head(renderer.timers))
  /\ renderer' = [renderer EXCEPT !.timers = Tail(renderer.timers)]
  /\ UNCHANGED <<updater, configured, credentials, storeTokens, storeSettings, docsService,
                 doc, now, calls, authFlow, hist, noteStore, online>>

\* the Save button
HandleManualSave ==
  /\ Len(saveRequests) < MaxQueue
  /\ saveRequests' = InvokeSaveNote(renderer.content)
  /\ renderer' = [renderer EXCEPT !.timers = ClearTimeout(renderer.timers)]
  /\ UNCHANGED <<updater, configured, credentials, storeTokens, storeSettings, docsService,
                 doc, now, calls, authFlow, hist, noteStore, online>>

\* Cmd/Ctrl+S, Cmd/Ctrl+Enter and double Enter
HandleQuickSave ==
  /\ Len(saveRequests) < MaxQueue
  /\ saveRequests' = InvokeSaveNote(renderer.content)
  /\ renderer' = [renderer EXCEPT !.timers = ClearTimeout(renderer.timers)]
  /\ UNCHANGED <<updater, configured, credentials, storeTokens, storeSettings, docsService,
                 doc, now, calls, authFlow, hist, noteStore, online>>

\* a 'save-note' request arrives from the renderer
RequestSaveNote(content) ==
  /\ Len(saveRequests) < MaxQueue
  /\ saveRequests' = InvokeSaveNote(content)
  /\ UNCHANGED <<updater, configured, credentials, storeTokens, storeSettings, docsService,
                 doc, now, calls, authFlow, hist, noteStore, renderer, online>>

\* a reply whose success follows the sync result
SaveNoteResultOfSync(syncResult) ==
  [success |-> syncResult.success, syncResult |-> syncResult]

\* what 'save-note' returns: { success: true } or { success: true, syncResult }
SaveNoteResult(syncResult) == [success |-> TRUE, syncResult |-> syncResult]

\* 'save-note' that only saves locally; its reply reaches saveNote
SaveNote ==
  /\ saveRequests # <<>>
  /\ noteStore' = [lastNote |-> Head(saveRequests), lastSaved |-> now]
  /\ saveRequests' = Tail(saveRequests)
  /\ renderer' = [renderer EXCEPT !.lastReply = SaveNoteResult(NoResult)]
  /\ UNCHANGED <<updater, configured, credentials, storeTokens, storeSettings, docsService,
                 doc, now, calls, authFlow, hist, online>>

\* 'save-note' with auto-sync: saves locally, then awaits syncNote(content)
SaveNoteAutoSync(c) ==
  /\ saveRequests # <<>>
  /\ Free(c)
  /\ SyncNoteReady
       => Len(doc) + Len(AppendText(now, Head(saveRequests))) <= MaxDocLen
  /\ noteStore' = [lastNote |-> Head(saveRequests), lastSaved |-> now]
  /\ saveRequests' = Tail(saveRequests)
  /\ calls' = IF SyncNoteReady
              THEN Begin(c, "syncNote", "get", Head(saveRequests),
                         TargetOf(Settings), NoResult)
              ELSE Begin(c, "syncNote", "done", Head(saveRequests), "",
                         FailureOf("syncNote", EntryError))
  /\ UNCHANGED <<updater, configured, credentials, storeTokens, storeSettings, docsService,
                 doc, now, authFlow, hist, renderer, online>>

\* syncNote returned to 'save-note', whose reply reaches saveNote
SaveNoteReply(c) ==
  /\ calls[c].op = "syncNote" /\ calls[c].pc = "done"
  /\ calls' = [calls EXCEPT ![c] = IdleCall]
  /\ renderer' = [renderer EXCEPT !.lastReply = SaveNoteResult(calls[c].result)]
  /\ UNCHANGED <<updater, configured, credentials, storeTokens, storeSettings, docsService,
                 doc, now, authFlow, hist, noteStore, saveRequests, online>>

\* the network goes away or comes back
SetOnline(b) ==
  /\ online # b
  /\ online' = b
  /\ UNCHANGED <<updater, configured, credentials, storeTokens, storeSettings, docsService,
                 doc, now, calls, authFlow, hist, noteStore, renderer, saveRequests>>

\* what an earlier run left in the store
PersistedNotes == {EmptyNoteStore, [lastNote |-> <<"a">>, lastSaved |-> 1]}
\* persisted tokens that carry no expiry date
LastingTokens == [access_token |-> 1, refresh_token |-> TRUE, expiry_date |-> 0]
PersistedSettings ==
  {<<>>, <<[isEnabled |-> TRUE, targetDocumentId |-> TargetDoc]>>}

\* start of the application: the constructor of the coordinator, then the
\* mount of App, which loads the note
NoteInit ==
  /\ configured \in BOOLEAN
  /\ storeTokens \in {<<>>, <<LastingTokens>>}
  /\ credentials = IF configured /\ storeTokens # <<>> THEN storeTokens[1]
                   ELSE EmptyCredentials
  /\ docsService = (configured /\ storeTokens # <<>>)
  /\ storeSettings \in PersistedSettings
  /\ doc = <<NL>>
  /\ now = 1
  /\ calls = [c \in Calls |-> IdleCall]
  /\ authFlow = NoFlow
  /\ hist = <<>>
  /\ noteStore \in PersistedNotes
  /\ renderer = [MountedApp EXCEPT !.content = LoadNoteResult(noteStore).content]
  /\ saveRequests = <<>>
  /\ online \in BOOLEAN
  /\ updater = IdleUpdater

\* the main process, whatever renderer sends the 'save-note' requests; the
\* clock stands still, none of these steps compares times
NoteNext ==
  \/ \E content \in EditorContents : RequestSaveNote(content)
  \/ SaveNote
  \/ \E c \in Calls : SaveNoteAutoSync(c)
  \/ \E c \in Calls : DocsGetResponse(c)
  \/ \E c \in Calls : DocsBatchResponse(c)
  \/ \E c \in Calls : InfoResponse(c)
  \/ \E c \in Calls : SaveNoteReply(c)
  \/ \E b \in BOOLEAN : SetOnline(b)

NoteSpec == NoteInit /\ [][NoteNext]_vars

\* the handlers and the answers of the services are not held back for ever;
\* the user and the network owe nothing
NoteFairness ==
  /\ WF_vars(SaveNote)
  /\ \A c \in Calls :
       /\ WF_vars(SaveNoteAutoSync(c))
       /\ WF_vars(DocsGetResponse(c))
       /\ WF_vars(DocsBatchResponse(c))
       /\ WF_vars(InfoResponse(c))
       /\ WF_vars(SaveNoteReply(c))

NoteFairSpec == NoteSpec /\ NoteFairness

----------------------------------------------------------------------------
(* The editor and its saves, on a store without syncSettings (the sync is  *)
(* off, so syncNote returns at once)                                       *)

EditorInit == NoteInit /\ storeSettings = <<>> /\ online

EditorNext ==
  \/ \E newContent \in EditorContents : HandleContentChange(newContent)
  \/ TimerFires
  \/ HandleManualSave
  \/ HandleQuickSave
  \/ SaveNote
  \/ \E c \in Calls : SaveNoteAutoSync(c)
  \/ \E c \in Calls : SaveNoteReply(c)
  \/ Tick

EditorSpec == EditorInit /\ [][EditorNext]_vars

AuthInit ==
  /\ configured \in BOOLEAN
  /\ credentials = EmptyCredentials
  /\ storeTokens = <<>>
  /\ storeSettings = <<>>
  /\ docsService = FALSE
  /\ doc = <<NL>>
  /\ now = 1
  /\ calls = [c \in Calls |-> IdleCall]
  /\ authFlow = NoFlow
  /\ hist = <<>>
  /\ noteStore = EmptyNoteStore
  /\ renderer = MountedApp
  /\ saveRequests = <<>>
  /\ online = TRUE
  /\ updater = IdleUpdater

AuthNext ==
  \/ StartAuth
  \/ \E hasCode \in BOOLEAN : WillNavigate(hasCode)
  \/ DidNavigate
  \/ \E h \in {"wn", "dn"} : ExchangeResponse(h)
  \/ Closed
  \/ Disconnect
  \/ \E settings \in Partials : SetSyncSettings(settings)
  \/ \E c \in Calls : RefreshTokenIfNeeded(c)
  \/ \E c \in Calls : RefreshResponse(c)
  \/ \E c \in Calls : Return(c)
  \/ Tick

AuthSpec == AuthInit /\ [][AuthNext]_vars

----------------
(* GoogleDocsService called directly, one call after the other (a later   *)
(* call starts at a later time), on any initial document                   *)

DocInit ==
  /\ configured = TRUE
  /\ credentials = [access_token |-> 1, refresh_token |-> TRUE, expiry_date |-> 0]
  /\ storeTokens = <<credentials>>
  /\ storeSettings = <<>>
  /\ docsService = TRUE
  /\ doc \in InitDocs
  /\ now = 1
  /\ calls = [c \in Calls |-> IdleCall]
  /\ authFlow = NoFlow
  /\ hist = <<>>
  /\ noteStore = EmptyNoteStore
  /\ renderer = MountedApp
  /\ saveRequests = <<>>
  /\ online = TRUE
  /\ updater = IdleUpdater

DocCall(op, content) ==
  /\ \A c \in Calls : calls[c].pc = "idle"
  /\ now <= MaxOps            \* now - 1 calls were made so far
  /\ calls' = Begin(1, op, "get", content, TargetDoc, NoResult)
  /\ now' = now + 1
  /\ UNCHANGED <<updater, noteVars, configured, credentials, storeTokens, storeSettings, docsService,
                 doc, authFlow, hist>>

DocNext ==
  \/ \E op \in DirectOps, content \in Contents : DocCall(op, content)
  \/ \E c \in Calls : DocsGetResponse(c)
  \/ \E c \in Calls : DocsBatchResponse(c)
  \/ \E c \in Calls : Return(c)

DocSpec == DocInit /\ [][DocNext]_vars

----------------------------------------------------------------------------
(* GoogleDocsService on any body the response type of documents.get allows: *)
(* body.content is optional, so besides the body of the document the        *)
(* methods also meet a missing or empty list and a lone section break       *)

SectionBreakOnly == <<[startIndex |-> 0, endIndex |-> 1]>>

FetchedBodies(text) == {<<>>, SectionBreakOnly, BodyContent(text)}

BodyNext ==
  \/ \E op \in DirectOps, content \in Contents : DocCall(op, content)
  \/ \E c \in Calls, bodyContent \in FetchedBodies(doc) :
       DocsGetAnswer(c, bodyContent)
  \/ \E c \in Calls : DocsBatchResponse(c)
  \/ \E c \in Calls : Return(c)

BodySpec == DocInit /\ [][BodyNext]_vars

----------------------------------------------------------------------------
(* appendToDocument called again before an earlier call has finished: the  *)
(* service has no lock, so two calls can be between their documents.get    *)
(* and their documents.batchUpdate                                         *)

RaceCalls == {1, 2}

\* the notes of the racing calls: empty, a letter, a line break
RaceContents == SeqsUpTo({"a", NL}, MaxLen)

RaceInit ==
  /\ configured = TRUE
  /\ credentials = [access_token |-> 1, refresh_token |-> TRUE, expiry_date |-> 0]
  /\ storeTokens = <<credentials>>
  /\ storeSettings = <<>>
  /\ docsService = TRUE
  /\ doc \in InitDocs
  /\ now = 1
  /\ calls = [c \in RaceCalls |-> IdleCall]
  /\ authFlow = NoFlow
  /\ hist = <<>>
  /\ noteStore = EmptyNoteStore
  /\ renderer = MountedApp
  /\ saveRequests = <<>>
  /\ online = TRUE
  /\ updater = IdleUpdater

RaceCall(c, content) ==
  /\ calls[c].pc = "idle"
  /\ \A d \in RaceCalls : d < c => calls[d].pc # "idle"
  /\ now <= MaxOps            \* now - 1 calls were made so far
  /\ calls' = Begin(c, "appendToDocument", "get", content, TargetDoc, NoResult)
  /\ now' = now + 1
  /\ UNCHANGED <<updater, noteVars, configured, credentials, storeTokens, storeSettings, docsService,
                 doc, authFlow, hist>>

RaceNext ==
  \/ \E c \in RaceCalls, content \in RaceContents : RaceCall(c, content)
  \/ \E c \in RaceCalls : DocsGetResponse(c)
  \/ \E c \in RaceCalls : DocsBatchResponse(c)
  \/ \E c \in RaceCalls : Return(c)

RaceSpec == RaceInit /\ [][RaceNext]_vars

----------------------------------------------------------------------------
(* The editor with the sync switched on: 'save-note' awaits syncNote and    *)
(* Cmd/Ctrl+Shift+Enter saves the editor content as a section. Neither the  *)
(* renderer nor ipcMain holds a request back, so two handlers can be        *)
(* waiting for the document service                                         *)

\* handleSaveAsSection up to its await: the trimmed content is not empty and
\* 'save-note-section' runs saveAsSection on the section built from it
HandleSaveAsSection(c) ==
  /\ TrimNonEmpty(renderer.content)
  /\ SaveAsSection(c, renderer.content)

\* handleSaveAsSection after its await: on success setHTML('') empties the
\* editor, otherwise the content stays
SaveSectionReply(c) ==
  /\ calls[c].op = "saveAsSection" /\ calls[c].pc = "done"
  /\ calls' = [calls EXCEPT ![c] = IdleCall]
  /\ renderer' = [renderer EXCEPT
                    !.content = IF calls[c].result.success THEN <<>> ELSE @]
  /\ UNCHANGED <<updater, configured, credentials, storeTokens, storeSettings, docsService,
                 doc, now, authFlow, hist, noteStore, saveRequests, online>>

SyncingInit ==
  /\ configured = TRUE
  /\ storeTokens = <<LastingTokens>>
  /\ credentials = LastingTokens
  /\ docsService = TRUE
  /\ storeSettings = <<[isEnabled |-> TRUE, targetDocumentId |-> TargetDoc]>>
  /\ doc = <<NL>>
  /\ now = 1
  /\ calls = [c \in RaceCalls |-> IdleCall]
  /\ authFlow = NoFlow
  /\ hist = <<>>
  /\ noteStore \in PersistedNotes
  /\ renderer = [MountedApp EXCEPT !.content = LoadNoteResult(noteStore).content]
  /\ saveRequests = <<>>
  /\ online = TRUE
  /\ updater = IdleUpdater

SyncingNext ==
  \/ \E newContent \in EditorContents : HandleContentChange(newContent)
  \/ TimerFires
  \/ HandleManualSave
  \/ HandleQuickSave
  \/ \E c \in RaceCalls : SaveNoteAutoSync(c)
  \/ \E c \in RaceCalls : HandleSaveAsSection(c)
  \/ \E c \in RaceCalls : DocsGetResponse(c)
  \/ \E c \in RaceCalls : DocsBatchResponse(c)
  \/ \E c \in RaceCalls : InfoResponse(c)
  \/ \E c \in RaceCalls : SaveNoteReply(c)
  \/ \E c \in RaceCalls : SaveSectionReply(c)

SyncingSpec == SyncingInit /\ [][SyncingNext]_vars

----------------------------------------------------------------------------
(* AutoUpdaterManager: autoDownload is off, so electron-updater downloads   *)
(* only when downloadUpdate is called and reports 'update-downloaded' only  *)
(* for such a download                                                      *)

\* the application runs until quitAndInstall
Running == updater.quitAndInstall = 0

UpdaterUnchanged ==
  UNCHANGED <<configured, credentials, storeTokens, storeSettings, docsService,
              doc, now, calls, authFlow, hist, noteStore, renderer,
              saveRequests, online>>

\* the check three seconds after startup; skipped in development
CheckForUpdates ==
  /\ Running /\ updater.checks = 0
  /\ updater' = [updater EXCEPT
                   !.checks = 1,
                   !.checking = IF updater.development THEN @ ELSE @ + 1]
  /\ UpdaterUnchanged

\* the manual check from the menu or the UI, at most MaxOps times
ManualCheckForUpdates ==
  /\ Running /\ updater.checks >= 1 /\ updater.checks <= MaxOps
  /\ updater' = [updater EXCEPT !.checks = @ + 1, !.checking = @ + 1]
  /\ UpdaterUnchanged

\* 'update-available': the renderer is told and the update dialog is shown
UpdateAvailable ==
  /\ Running /\ updater.checking > 0
  /\ updater' = [updater EXCEPT !.checking = @ - 1, !.available = @ + 1,
                                !.updateDialogs = @ + 1]
  /\ UpdaterUnchanged

\* 'update-not-available' or 'error': the renderer is told, nothing else
UpdateNotAvailable ==
  /\ Running /\ updater.checking > 0
  /\ updater' = [updater EXCEPT !.checking = @ - 1]
  /\ UpdaterUnchanged

UpdateButtons == <<"Download & Install", "Later">>
RestartButtons == <<"Restart Now", "Later">>

\* an update dialog that downloads whatever button was chosen
ShowUpdateDialogAlwaysDownloads(response) ==
  /\ Running /\ updater.updateDialogs > 0
  /\ updater' = [updater EXCEPT !.updateDialogs = @ - 1,
                                !.response = UpdateButtons[response + 1],
                                !.downloadUpdate = @ + 1,
                                !.downloading = @ + 1]
  /\ UpdaterUnchanged

\* showUpdateDialog after its await: response 0 is 'Download & Install',
\* response 1 is 'Later' or the dialog dismissed (cancelId)
ShowUpdateDialog(response) ==
  /\ Running /\ updater.updateDialogs > 0
  /\ updater' = [updater EXCEPT
                   !.updateDialogs = @ - 1,
                   !.response = UpdateButtons[response + 1],
                   !.downloadUpdate = IF response = 0 THEN @ + 1 ELSE @,
                   !.downloading = IF response = 0 THEN @ + 1 ELSE @]
  /\ UpdaterUnchanged

\* 'update-downloaded': the renderer is told and the restart dialog is shown
UpdateDownloaded ==
  /\ Running /\ updater.downloading > 0
  /\ updater' = [updater EXCEPT !.downloading = @ - 1, !.downloaded = @ + 1,
                                !.restartDialogs = @ + 1]
  /\ UpdaterUnchanged

\* showRestartDialog after its await: response 0 is 'Restart Now'
ShowRestartDialog(response) ==
  /\ Running /\ updater.restartDialogs > 0
  /\ updater' = [updater EXCEPT
                   !.restartDialogs = @ - 1,
                   !.response = RestartButtons[response + 1],
                   !.quitAndInstall = IF response = 0 THEN @ + 1 ELSE @]
  /\ UpdaterUnchanged

\* a production or a development build, on an installation never connected
UpdaterInit ==
  /\ configured = TRUE
  /\ credentials = EmptyCredentials
  /\ storeTokens = <<>>
  /\ storeSettings = <<>>
  /\ docsService = FALSE
  /\ doc = <<NL>>
  /\ now = 1
  /\ calls = [c \in Calls |-> IdleCall]
  /\ authFlow = NoFlow
  /\ hist = <<>>
  /\ noteStore = EmptyNoteStore
  /\ renderer = MountedApp
  /\ saveRequests = <<>>
  /\ online = TRUE
  /\ updater \in {[IdleUpdater EXCEPT !.development = d] : d \in BOOLEAN}

UpdaterNext ==
  \/ CheckForUpdates
  \/ ManualCheckForUpdates
  \/ UpdateAvailable
  \/ UpdateNotAvailable
  \/ \E response \in {0, 1} : ShowUpdateDialog(response)
  \/ UpdateDownloaded
  \/ \E response \in {0, 1} : ShowRestartDialog(response)

UpdaterSpec == UpdaterInit /\ [][UpdaterNext]_vars

----------------------------------------------------------------------------
(* Properties *)

CoordinatorOps == {"syncNote", "saveAsSection", "validateDocument", "getRecentDocuments"}

Starts(c, op) == calls[c].pc = "idle" /\ calls'[c].op = op

\* C1: a syncNote that starts while the persisted settings have isEnabled=false
\* or no (or an empty) targetDocumentId returns {success:false} in that same
\* turn, without having sent a request to the document service, and leaves the
\* persisted settings (lastSync included) as they were.
C1_DisabledSyncRefused ==
  [][\A c \in Calls :
       (Starts(c, "syncNote") /\ (~IsEnabled(Settings) \/ ~HasTarget(Settings)))
         => /\ calls'[c].pc = "done"
            /\ calls'[c].result.kind = "object"
            /\ ~calls'[c].result.success
            /\ storeSettings' = storeSettings
            /\ doc' = doc]_vars

\* an authenticated, configured coordinator refused a sync because of its settings
C1_Witness ==
  \E c \in Calls :
    /\ calls[c].op = "syncNote" /\ calls[c].pc = "done"
    /\ calls[c].result = ObjectResult(FALSE, "Sync is disabled")
    /\ configured /\ docsService /\ IsAuthenticated
    /\ "targetDocumentId" \in DOMAIN Settings

\* C2: in every reachable state isEnabled=true implies a non-empty
\* targetDocumentId in the persisted settings.
C2_EnabledImpliesTarget == IsEnabled(Settings) => HasTarget(Settings)

\* C3: the step that removes the persisted tokens (or the persisted settings)
\* removes both and empties the in-memory credentials in the same step, so
\* that right after it isAuthenticated() is false and getSyncSettings() is the
\* default; no state has only one of the two cleared by a disconnect.
C3_DisconnectAtomic ==
  [][((storeTokens # <<>> /\ storeTokens' = <<>>)
        \/ (storeSettings # <<>> /\ storeSettings' = <<>>)
        \/ (docsService /\ ~docsService'))
       => /\ storeTokens' = <<>>
          /\ storeSettings' = <<>>
          /\ GetSyncSettings(storeSettings') = [isEnabled |-> FALSE]
          /\ ~AuthIsAuthenticated(credentials', now')
          /\ ~(configured' /\ AuthIsAuthenticated(credentials', now'))]_vars

\* a coordinator that had synced a note (so was connected) is now disconnected
C3_Witness ==
  /\ doc # <<NL>>
  /\ storeTokens = <<>> /\ storeSettings = <<>>
  /\ ~docsService /\ credentials = EmptyCredentials

\* C4: whatever the remote calls did, a finished syncNote or validateDocument
\* holds a {success, ...} object, a finished saveAsSection a boolean and a
\* finished getRecentDocuments a list; none of them is rejected.
C4_NeverRejects ==
  \A c \in Calls :
    (calls[c].pc = "done" /\ calls[c].op \in CoordinatorOps)
      => calls[c].result.kind =
           (IF calls[c].op \in {"syncNote", "validateDocument"} THEN "object"
            ELSE IF calls[c].op = "saveAsSection" THEN "boolean" ELSE "list")

\* syncNote found the docs service torn down after its append and still
\* returned a result object
C4_Witness ==
  \E c \in Calls :
    /\ calls[c].op = "syncNote" /\ calls[c].pc = "done"
    /\ calls[c].result = ObjectResult(FALSE, "TypeError")

\* C5: a step of syncNote, saveAsSection or validateDocument changes the
\* persisted tokens, the in-memory credentials or the persisted settings only
\* when it is the step that returns success; a call that returns failure has
\* changed none of them.
C5_FailureLeavesState ==
  [][\A c \in Calls :
       (/\ calls'[c] # calls[c]
        /\ calls'[c].op \in {"syncNote", "saveAsSection", "validateDocument"}
        /\ <<storeTokens, credentials, storeSettings>>'
             # <<storeTokens, credentials, storeSettings>>)
         => (calls'[c].pc = "done" /\ calls'[c].result.success)]_vars

\* syncNote appended its note, then failed on getDocumentInfo: no lastSync
C5_Witness ==
  \E c \in Calls :
    /\ calls[c].op = "syncNote" /\ calls[c].pc = "done"
    /\ calls[c].result = ObjectResult(FALSE, "Failed")
    /\ doc # <<NL>>
    /\ "lastSync" \notin DOMAIN Settings

StartAuthStep == FlowQuiet /\ authFlow' # authFlow

ExchangeFailed(h) ==
  /\ authFlow[h] = "exchanging" /\ authFlow'[h] = "done"
  /\ authFlow'.exchanged = authFlow.exchanged

\* C6: startAuth resolves to false when OAuth is not configured (no window is
\* opened), when the window is closed before any code arrived, and when an
\* exchange fails and no exchange of this flow succeeded; the promise becomes
\* true only in the step in which an exchange succeeded and its tokens were
\* set as credentials and stored under googleTokens.
C6_StartAuthResult ==
  [][/\ (StartAuthStep /\ ~configured)
          => (authFlow'.result = "false" /\ authFlow'.win = "none")
     /\ (/\ authFlow.win = "open" /\ authFlow'.win = "closed"
         /\ authFlow.wn = "idle" /\ authFlow.dn = "idle")
          => authFlow'.result = "false"
     /\ \A h \in {"wn", "dn"} :
          (ExchangeFailed(h) /\ authFlow.exchanged = 0) => authFlow'.result = "false"
     /\ (authFlow.result # "true" /\ authFlow'.result = "true")
          => /\ authFlow.exchanged = 0 /\ authFlow'.exchanged = 1
             /\ storeTokens' # <<>>
             /\ storeTokens'[1].access_token # 0
             /\ credentials' = storeTokens'[1]]_vars

\* startAuth resolved to true with the exchanged tokens in the store
C6_Witness ==
  /\ authFlow.result = "true" /\ authFlow.exchanged = 1
  /\ storeTokens # <<>> /\ credentials = storeTokens[1]

\* C7: right after clearCredentials() (run by disconnect, whatever was held)
\* isAuthenticated() is false, and right after a successful getTokens(code)
\* whose tokens have an access_token and no expiry_date it is true.
C7_AuthenticatedAfterClearAndExchange ==
  [][/\ (storeTokens # <<>> /\ storeTokens' = <<>>)
          => ~AuthIsAuthenticated(credentials', now')
     /\ (/\ authFlow.exchanged = 0 /\ authFlow'.exchanged = 1
         /\ storeTokens'[1].access_token # 0
         /\ storeTokens'[1].expiry_date = 0)
          => AuthIsAuthenticated(credentials', now')]_vars

\* tokens without expiry_date were exchanged and the session is authenticated
C7_Witness ==
  /\ authFlow.exchanged = 1 /\ authFlow.result = "true"
  /\ credentials.access_token # 0 /\ credentials.expiry_date = 0
  /\ AuthIsAuthenticated(credentials, now)

\* C8: a refreshTokenIfNeeded that starts while the credentials' expiry_date
\* is absent or in the future finishes in that same turn, having sent nothing
\* to the token endpoint, with the in-memory and the persisted tokens unchanged.
C8_NoRefreshWhenNotExpired ==
  [][\A c \in Calls :
       (/\ Starts(c, "refreshTokenIfNeeded")
        /\ (credentials.expiry_date = 0 \/ now < credentials.expiry_date))
         => /\ calls'[c].pc = "done"
            /\ credentials' = credentials
            /\ storeTokens' = storeTokens]_vars

\* refreshTokenIfNeeded returned true at once although a refresh token is held
C8_Witness ==
  \E c \in Calls :
    /\ calls[c].op = "refreshTokenIfNeeded" /\ calls[c].pc = "done"
    /\ calls[c].result.success
    /\ credentials.access_token # 0 /\ credentials.refresh_token
    /\ now < credentials.expiry_date

BannerLine(t) == <<"---", ToString(t), "---", NL>>

WithoutFinalNewline(text) == SubSeq(text, 1, Len(text) - 1)

\* C9: after appendToDocument(A) and then appendToDocument(B) the document is
\* the earlier content, then a blank line, A's banner line and A, then a blank
\* line, B's banner line and B, then the final newline.
C9_TwoAppendsInOrder ==
  \A i \in 1..(Len(hist) - 1) :
    (hist[i].op = "appendToDocument" /\ hist[i + 1].op = "appendToDocument")
      => hist[i + 1].after =
           WithoutFinalNewline(hist[i].before)
             \o <<NL, NL>> \o BannerLine(hist[i].ts) \o hist[i].content
             \o <<NL, NL>> \o BannerLine(hist[i + 1].ts) \o hist[i + 1].content
             \o <<NL>>

\* two different notes were appended to a document that had content
C9_Witness ==
  /\ Len(hist) = 2
  /\ hist[1].op = "appendToDocument" /\ hist[2].op = "appendToDocument"
  /\ hist[1].before # <<NL>>
  /\ Len(hist[1].content) > 0 /\ hist[2].content # hist[1].content
  /\ hist[2].ts # hist[1].ts
  /\ doc = hist[2].after

\* C10: after updateDocument(X) and then updateDocument(Y) the document is
\* exactly Y followed by the final newline.
C10_ReplaceTwiceLeavesY ==
  \A i \in 1..(Len(hist) - 1) :
    (hist[i].op = "updateDocument" /\ hist[i + 1].op = "updateDocument")
      => hist[i + 1].after = hist[i + 1].content \o <<NL>>

----------------------------------------------------------------------------
(* Empty documents *)

EmptyDoc == <<NL>>

\* C11: when appendToDocument or addSectionToDocument has fetched a document
\* with no content (only the final newline), the batch it sends holds exactly
\* one request, an insertText at index 1, and no deleteContentRange.
C11_EmptyDocInsertAtOne ==
  [][\A c \in Calls :
       (/\ calls[c].op \in {"appendToDocument", "addSectionToDocument"}
        /\ calls[c].pc = "get" /\ calls'[c].pc # "get"
        /\ doc = EmptyDoc /\ calls'[c].result # Rejected)
         => /\ calls'[c].pc = "batch"
            /\ Len(calls'[c].reqs) = 1
            /\ calls'[c].reqs[1].type = "insertText"
            /\ calls'[c].reqs[1].index = 1]_vars

\* a section was added to an empty document: it now follows two newlines
C11_Witness ==
  /\ Len(hist) >= 1
  /\ hist[1].op = "addSectionToDocument" /\ hist[1].before = EmptyDoc
  /\ Len(hist[1].content) > 0
  /\ hist[1].after = <<NL, NL>> \o hist[1].content \o <<NL>>

----------------------------------------------------------------------------
(* Order of the effects of syncNote *)

LastSyncOf(st) ==
  IF st # <<>> /\ "lastSync" \in DOMAIN st[1] THEN st[1]["lastSync"] ELSE 0

\* C12: a syncNote call moves get -> batch -> info -> done and never back, so
\* a call that returns success has sent one batch, a single insertText of the
\* banner block followed by the content, to the target document read at the
\* start of the call, has then had getDocumentInfo answered, and writes
\* lastSync only in the step that returns success, as a time not before the
\* time of the banner, which is not before the start of the call; no earlier
\* step of the call writes the settings.
C12_SyncNoteOrder ==
  [][\A c \in Calls :
       LET a == calls[c]
           b == calls'[c]
       IN  (a # b /\ "syncNote" \in {a.op, b.op})
             => /\ (b.pc = "get")
                     => /\ a.pc = "idle" /\ IsAuthenticated
                        /\ IsEnabled(Settings)
                        /\ b.docId = TargetOf(Settings) /\ b.docId # ""
                /\ (b.pc = "batch")
                     => /\ a.pc = "get"
                        /\ Len(b.reqs) = 1
                        /\ b.reqs[1].type = "insertText"
                        /\ b.reqs[1].text
                             = <<NL, NL>> \o BannerLine(b.ts) \o b.content
                        /\ b.content = a.content /\ b.docId = a.docId
                        /\ b.ts = now /\ now >= a.t0
                /\ (b.pc = "info")
                     => /\ a.pc = "batch"
                        /\ doc' = BatchUpdate(doc, a.reqs) /\ doc' # doc
                        /\ b.docId = a.docId
                /\ (b.pc = "done" /\ b.result.success)
                     => /\ a.pc = "info" /\ a.docId = TargetDoc
                        /\ LastSyncOf(storeSettings') = now
                        /\ now >= a.ts
                /\ ~(b.pc = "done" /\ b.result.success)
                     => storeSettings' = storeSettings]_vars

\* a syncNote returned success after time had passed since its append; the
\* document ends with its banner block and lastSync is the time of the return
C12_Witness ==
  \E c \in Calls :
    /\ calls[c].op = "syncNote" /\ calls[c].pc = "done"
    /\ calls[c].result.success
    /\ calls[c].ts < now /\ LastSyncOf(storeSettings) = now
    /\ doc = <<NL, NL>> \o BannerLine(calls[c].ts) \o calls[c].content \o <<NL>>

----------------------------------------------------------------------------
(* Connection states *)

\* C13: a startAuth that succeeds while no tokens are held leaves the
\* coordinator connected and disabled: isAuthenticated() is true and
\* getSyncSettings().isEnabled is false.
C13_AuthLeavesDisabled ==
  [][(/\ storeTokens = <<>>
      /\ authFlow.result # "true" /\ authFlow'.result = "true")
       => /\ AuthIsAuthenticated(credentials', now')
          /\ ~IsEnabled(GetSyncSettings(storeSettings'))]_vars

\* C14: in the application the persisted settings go from disabled to enabled
\* only in the step of handleSave that follows a validateDocument which
\* returned success, and the target they then hold is the validated id.
C14_EnabledOnlyAfterValidation ==
  [][(~IsEnabled(Settings) /\ IsEnabled(GetSyncSettings(storeSettings')))
       => \E c \in Calls :
            /\ calls[c].op = "validateDocument" /\ calls[c].pc = "done"
            /\ calls[c].result = ObjectResult(TRUE, "")
            /\ calls[c].docId = TargetDoc
            /\ calls'[c] = IdleCall
            /\ TargetOf(GetSyncSettings(storeSettings')) = calls[c].docId]_vars

\* the sync was enabled for the validated document and a note went to it
C14_Witness ==
  /\ IsEnabled(Settings) /\ TargetOf(Settings) = TargetDoc
  /\ LastSyncOf(storeSettings) > 0
  /\ doc # <<NL>>

----------------------------------------------------------------------------
(* Missing OAuth configuration *)

NotConfiguredResult(op) ==
  IF op = "saveAsSection" THEN BooleanResult(FALSE)
  ELSE ObjectResult(FALSE, "Not configured")

\* C15: without a client id or a client secret, startAuth resolves to false
\* and opens no window, and syncNote, saveAsSection and validateDocument
\* return in the turn of the call, with no request pending, the failure that
\* their first test produces (for syncNote and validateDocument the "not
\* configured" error, whatever tokens and settings the store holds).
C15_ConfigCheckedFirst ==
  [][/\ ~configured
        => /\ authFlow'.win = "none" /\ authFlow'.result # "pending"
           /\ FlowQuiet /\ authFlow' # authFlow => authFlow'.result = "false"
     /\ \A c \in Calls :
          (/\ ~configured
           /\ \E op \in {"syncNote", "saveAsSection", "validateDocument"} :
                Starts(c, op))
            => /\ calls'[c].pc = "done"
               /\ calls'[c].result = NotConfiguredResult(calls'[c].op)
               /\ doc' = doc]_vars

\* startAuth has resolved to false and a syncNote was refused for the missing
\* configuration although the store holds tokens and enabled settings
C15_Witness ==
  /\ ~configured /\ authFlow.result = "false" /\ authFlow.win = "none"
  /\ storeTokens # <<>> /\ IsEnabled(Settings) /\ HasTarget(Settings)
  /\ \E c \in Calls :
       /\ calls[c].op = "syncNote" /\ calls[c].pc = "done"
       /\ calls[c].result = ObjectResult(FALSE, "Not configured")

----------------------------------------------------------------------------
(* Preconditions of saveAsSection *)

RefusedAtEntry(c) == calls'[c].pc = "done" /\ ~calls'[c].result.success

\* C16: in every state of the coordinator, a saveAsSection that starts
\* returns false in the turn of the call (no request sent) exactly when a
\* syncNote started in that state would return its failure in the turn of the
\* call, and the other way round.
C16_SamePreconditions ==
  [][\A c \in Calls :
       /\ Starts(c, "saveAsSection") => (RefusedAtEntry(c) <=> ~SyncNoteReady)
       /\ Starts(c, "syncNote") => (RefusedAtEntry(c) <=> ~SaveAsSectionReady)]_vars

\* an authenticated session with a target but the sync switched off, in which
\* a saveAsSection has just been refused
C16_Witness ==
  /\ configured /\ docsService /\ IsAuthenticated
  /\ HasTarget(Settings) /\ ~IsEnabled(Settings)
  /\ \E c \in Calls :
       /\ calls[c].op = "saveAsSection" /\ calls[c].pc = "done"
       /\ calls[c].result = BooleanResult(FALSE)
       /\ LastSyncOf(storeSettings) = 0 /\ doc = <<NL>>

----------------------------------------------------------------------------
(* Lifecycle of the two store entries *)

\* C17: a store without googleTokens has no syncSettings entry either.
C17_NoTokensNoSettings == storeTokens = <<>> => storeSettings = <<>>

----------------------------------------------------------------------------
(* The local note *)

\* a 'save-note' handler takes the oldest request
HandlesSaveNote == saveRequests # <<>> /\ saveRequests' = Tail(saveRequests)

\* C18: the handler of a save-note request writes the content of the request
\* and the time to the local store, so that load-note returns that content;
\* no other step writes the local store; and the reply to the request has
\* success true, both from the handler that only saves locally and from the
\* one that awaits syncNote, whatever syncNote returned.
C18_SaveNoteLocal ==
  [][/\ HandlesSaveNote
          => /\ noteStore' = [lastNote |-> Head(saveRequests), lastSaved |-> now]
             /\ LoadNoteResult(noteStore').content = Head(saveRequests)
     /\ ~HandlesSaveNote => noteStore' = noteStore
     /\ (HandlesSaveNote /\ calls' = calls)
          => renderer'.lastReply = [success |-> TRUE, syncResult |-> NoResult]
     /\ \A c \in Calls :
          (calls[c].op = "syncNote" /\ calls[c].pc = "done" /\ calls'[c] # calls[c])
            => /\ renderer'.lastReply.success
               /\ renderer'.lastReply.syncResult = calls[c].result
     /\ renderer'.lastReply # renderer.lastReply
          => renderer'.lastReply.success]_vars

\* a note replaced the stored one and its save was answered with success
\* although the sync of it had failed at the remote service
C18_Witness ==
  /\ noteStore = [lastNote |-> <<"b">>, lastSaved |-> now]
  /\ LoadNoteResult(noteStore).content = <<"b">>
  /\ renderer.lastReply.success
  /\ renderer.lastReply.syncResult = ObjectResult(FALSE, "Failed")
  /\ saveRequests = <<>> /\ doc = <<NL>>

----------------------------------------------------------------------------
(* Notes saved while the service is out of reach *)

InFlightOffline(c, n) ==
  /\ calls[c].op = "syncNote" /\ calls[c].pc \in {"get", "batch"}
  /\ calls[c].content = n
  /\ ~online

InDoc(n) ==
  \E i \in 1..(Len(doc) - Len(n) + 1) : SubSeq(doc, i, i + Len(n) - 1) = n

\* C19: if the network comes back for good, every note whose append was in
\* flight while the service was out of reach ends up in the target document.
C19_UnreachableSyncRetried ==
  <>[]online
    => \A c \in Calls, n \in EditorContents : InFlightOffline(c, n) ~> InDoc(n)

----------------------------------------------------------------------------
(* Debounced auto-save *)

\* at most one auto-save timer is pending and it holds the editor content
OneTimerLatestContent ==
  /\ Len(renderer.timers) <= 1
  /\ renderer.timers # <<>> => renderer.timers[1] = renderer.content

\* with no timer pending and no save on its way the stored note is the
\* editor content
SettledNoteIsContent ==
  (renderer.timers = <<>> /\ saveRequests = <<>>)
    => noteStore.lastNote = renderer.content

\* C20: every editor change cancels the pending auto-save timer, so at most
\* one timer is pending and it holds the latest content; the step that ends a
\* pending timer without an edit (the timer running out, or a quick or manual
\* save cancelling it) invokes saveNote once, with the editor content; every
\* invocation of saveNote leaves no timer pending; and once the saves have
\* been handled the stored note equals the editor content.
C20_DebouncedSave ==
  /\ [](OneTimerLatestContent /\ SettledNoteIsContent)
  /\ [][((/\ renderer.timers # <<>> /\ renderer'.timers = <<>>
           /\ renderer'.content = renderer.content)
            => (saveRequests' = Append(saveRequests, renderer.content)))
        /\ ((Len(saveRequests') > Len(saveRequests))
            => (/\ renderer'.timers = <<>>
                /\ saveRequests' = Append(saveRequests, renderer.content)))
       ]_vars

\* after two different edits and the auto-save of the second, at a later
\* time, the stored note is the editor content
C20_Witness ==
  /\ renderer.content = <<"b">> /\ renderer.timers = <<>>
  /\ saveRequests = <<>>
  /\ noteStore = [lastNote |-> <<"b">>, lastSaved |-> MaxTime]
  /\ renderer.lastReply.success

----------------------------------------------------------------------------
(* Insertion offsets *)

\* lastElement.endIndex of a fetched body
LastEndIndex(bodyContent) == bodyContent[Len(bodyContent)].endIndex

\* the call c has fetched the document and sends its batch in this step
SendsBatch(c, op) ==
  /\ calls[c].op = op /\ calls[c].pc = "get" /\ calls'[c].pc = "batch"

\* C23 as stated: on a document with content appendToDocument inserts its
\* banner block at the end offset of the last structural element.
C23_AppendAtLastEndIndex ==
  [][\A c \in Calls :
       (SendsBatch(c, "appendToDocument") /\ doc # EmptyDoc)
         => /\ Len(calls'[c].reqs) = 1
            /\ calls'[c].reqs[1].type = "insertText"
            /\ calls'[c].reqs[1].index = LastEndIndex(BodyContent(doc))]_vars

\* C23 amended: on a document with content appendToDocument inserts its
\* banner block at the end offset of the last structural element minus one,
\* the position of the final newline of the body.
C23_AppendAtLastEndIndexMinusOne ==
  [][\A c \in Calls :
       (SendsBatch(c, "appendToDocument") /\ doc # EmptyDoc)
         => /\ Len(calls'[c].reqs) = 1
            /\ calls'[c].reqs[1].type = "insertText"
            /\ calls'[c].reqs[1].index = LastEndIndex(BodyContent(doc)) - 1
            /\ calls'[c].reqs[1].index = Len(doc)
            /\ calls'[c].reqs[1].text
                 = AppendText(now, calls[c].content)]_vars

\* an append to the document "x\ny" was applied: the block sits between the
\* old text and the final newline
C23_Witness ==
  /\ Len(hist) >= 1
  /\ hist[1].op = "appendToDocument" /\ hist[1].before = <<"x", NL, "y", NL>>
  /\ hist[1].after = <<"x", NL, "y">>
                       \o AppendText(hist[1].ts, hist[1].content) \o <<NL>>

\* C24 as stated: addSectionToDocument inserts "\n\n" and the content, with no
\* banner, one position before the index at which appendToDocument would
\* insert into the same document.
C24_SectionOneBeforeAppend ==
  [][\A c \in Calls :
       SendsBatch(c, "addSectionToDocument")
         => /\ Len(calls'[c].reqs) = 1
            /\ calls'[c].reqs[1].type = "insertText"
            /\ calls'[c].reqs[1].text = <<NL, NL>> \o calls[c].content
            /\ calls'[c].reqs[1].index
                 = AppendRequests(BodyContent(doc), now, <<>>)[1].index - 1]_vars

\* C24 amended: addSectionToDocument inserts "\n\n" and the content, with no
\* banner, at the end offset of the last structural element minus one, which
\* is the very index at which appendToDocument would insert into the same
\* document.
C24_SectionAtAppendIndex ==
  [][\A c \in Calls :
       SendsBatch(c, "addSectionToDocument")
         => /\ Len(calls'[c].reqs) = 1
            /\ calls'[c].reqs[1].type = "insertText"
            /\ calls'[c].reqs[1].text = <<NL, NL>> \o calls[c].content
            /\ calls'[c].reqs[1].index = LastEndIndex(BodyContent(doc)) - 1
            /\ calls'[c].reqs[1].index
                 = AppendRequests(BodyContent(doc), now, <<>>)[1].index]_vars

\* a section was added to the document "x": it sits between the old text and
\* the final newline, where an append would have put its banner
C24_Witness ==
  /\ Len(hist) >= 1
  /\ hist[1].op = "addSectionToDocument" /\ hist[1].before = <<"x", NL>>
  /\ Len(hist[1].content) > 0
  /\ hist[1].after = <<"x", NL, NL>> \o hist[1].content \o <<NL>>

\* C27: whatever body documents.get returns, no method sends an insertText
\* at an index below 1 or a deleteContentRange whose endIndex is not greater
\* than its startIndex.
C27_OffsetsInRange ==
  [][\A c \in Calls :
       (calls[c].pc = "get" /\ calls'[c].pc = "batch")
         => \A i \in 1..Len(calls'[c].reqs) :
              LET r == calls'[c].reqs[i] IN
              IF r.type = "insertText" THEN r.index >= 1
              ELSE r.endIndex > r.startIndex]_vars

----------------------------------------------------------------------------
(* Expired access tokens *)

\* the access token has run out and a refresh token is held
ExpiredButRefreshable ==
  /\ credentials.access_token # 0 /\ credentials.refresh_token
  /\ ~IsTokenValid(credentials, now)

\* C22: an authorized operation that starts with an expired access token and
\* a usable refresh token (and, for syncNote and saveAsSection, with the sync
\* enabled on a target document) does not fail at entry: it obtains and
\* persists a fresh token and goes on to its remote call.
C22_RefreshBeforeAuthTest ==
  [][\A c \in Calls :
       \A op \in {"syncNote", "saveAsSection", "validateDocument",
                  "getRecentDocuments"} :
         (/\ Starts(c, op) /\ configured /\ docsService
          /\ ExpiredButRefreshable
          /\ (op \in {"syncNote", "saveAsSection"}
                => (IsEnabled(Settings) /\ HasTarget(Settings))))
           => /\ calls'[c].pc # "done"
              /\ IsTokenValid(credentials', now)
              /\ storeTokens' = <<credentials'>>]_vars

----------------------------------------------------------------------------
(* The authorization code within one flow *)

\* handler h calls getTokens(code) in this step
CallsGetTokens(h) == authFlow[h] = "idle" /\ authFlow'[h] = "exchanging"

\* C25: within one startAuth flow getTokens is called at most once (a handler
\* calls it only if the other handler has not run) and googleTokens is
\* written at most once.
C25_CodeRedeemedOnce ==
  [][/\ CallsGetTokens("wn") => authFlow.dn = "idle"
     /\ CallsGetTokens("dn") => authFlow.wn = "idle"
     /\ (authFlow'.exchanged # authFlow.exchanged)
          => (authFlow.exchanged = 0 /\ authFlow'.exchanged = 1)]_vars

\* C26: a step of the authorization flow (its start, a navigation handler,
\* the answer to an exchange, the window closing) after which startAuth has
\* resolved to false, be it in this step or earlier, leaves the persisted
\* googleTokens and the in-memory credentials, and with them
\* isAuthenticated(), as they were.
C26_FalseLeavesTokens ==
  [][(authFlow' # authFlow /\ authFlow'.result = "false")
       => /\ storeTokens' = storeTokens
          /\ credentials' = credentials
          /\ AuthIsAuthenticated(credentials', now')
               = AuthIsAuthenticated(credentials, now)]_vars

----------------------------------------------------------------------------
(* Two appends racing on one document *)

\* the banner-plus-content block of the i-th append that was applied
BlockOf(i) == AppendText(hist[i].ts, hist[i].content)

\* call c has its batch applied in this step, as the second append ever, and
\* had fetched the document before the first append was applied
SecondOfRace(c) ==
  /\ calls[c].op = "appendToDocument"
  /\ calls[c].pc = "batch" /\ calls'[c].pc = "done"
  /\ Len(hist) = 1 /\ Len(hist') = 2
  /\ calls[c].reqs = RequestsOf(calls[c].op, BodyContent(hist[1].before),
                                calls[c].ts, calls[c].content)

\* C28: when an append is applied that had fetched the document before the
\* one earlier append was applied, the document afterwards is the prior
\* content, then the two banner-plus-content blocks whole and side by side,
\* in one order or the other, then the final newline.
C28_RacingAppendsKeepBoth ==
  [][\A c \in RaceCalls :
       SecondOfRace(c)
         => LET prior == WithoutFinalNewline(hist[1].before)
                first == BlockOf(1)
                second == AppendText(calls[c].ts, calls[c].content)
            IN  doc' \in {prior \o first \o second \o <<NL>>,
                          prior \o second \o first \o <<NL>>}]_vars

\* two appends raced on "x": the block applied second stands before the
\* block applied first, both whole
C28_Witness ==
  /\ Len(hist) = 2
  /\ hist[1].before = <<"x", NL>>
  /\ hist[1].content # hist[2].content
  /\ doc = <<"x">> \o AppendText(hist[2].ts, hist[2].content)
                   \o AppendText(hist[1].ts, hist[1].content) \o <<NL>>

----------------------------------------------------------------------------
(* Saves of the editor while a sync is under way *)

\* the syncNote and saveAsSection calls waiting for the document service
InFlightSyncs ==
  {c \in DOMAIN calls : /\ calls[c].op \in {"syncNote", "saveAsSection"}
                        /\ calls[c].pc \in {"get", "batch", "info"}}

\* C21: at most one syncNote or saveAsSection call is in flight.
C21_OneSyncInFlight == Cardinality(InFlightSyncs) <= 1

\* C29: when handleSaveAsSection resumes after saveNoteSection, a failed save
\* leaves the editor content as it is, and a successful one leaves in the
\* editor whatever is not the content that was sent: if the editor holds
\* other text than was sent, it is not emptied.
C29_SectionSaveKeepsNewText ==
  [][\A c \in DOMAIN calls :
       (/\ calls[c].op = "saveAsSection" /\ calls[c].pc = "done"
        /\ calls'[c].pc = "idle")
         => IF calls[c].result.success
            THEN renderer.content # calls[c].content
                   => renderer'.content = renderer.content
            ELSE renderer'.content = renderer.content]_vars

----------------------------------------------------------------------------
(* Updates *)

\* a dialog was answered in this step
DialogAnswered ==
  \/ updater'.updateDialogs < updater.updateDialogs
  \/ updater'.restartDialogs < updater.restartDialogs

\* C30: downloadUpdate is called only in the step in which an update dialog,
\* shown for an 'update-available' event, is answered 'Download & Install';
\* quitAndInstall only in the step in which a restart dialog, shown for an
\* 'update-downloaded' event, is answered 'Restart Now'; a dialog answered
\* 'Later' calls neither.
C30_UpdatesUserControlled ==
  [][/\ (updater'.downloadUpdate # updater.downloadUpdate)
          => /\ updater'.downloadUpdate = updater.downloadUpdate + 1
             /\ updater.available > 0
             /\ updater'.updateDialogs = updater.updateDialogs - 1
             /\ updater'.response = "Download & Install"
     /\ (updater'.quitAndInstall # updater.quitAndInstall)
          => /\ updater'.quitAndInstall = updater.quitAndInstall + 1
             /\ updater.downloaded > 0
             /\ updater'.restartDialogs = updater.restartDialogs - 1
             /\ updater'.response = "Restart Now"
     /\ (DialogAnswered /\ updater'.response = "Later")
          => /\ updater'.downloadUpdate = updater.downloadUpdate
             /\ updater'.quitAndInstall = updater.quitAndInstall]_vars

\* two updates were offered, one was put off and one downloaded, and the
\* restart was chosen
C30_Witness ==
  /\ updater.available = 2 /\ updater.updateDialogs = 0
  /\ updater.downloadUpdate = 1 /\ updater.quitAndInstall = 1
  /\ updater.response = "Restart Now"

====
